---------------------------- MODULE Spec2Model ----------------------------
(***************************************************************************)
(* Model of app.py: the /upload handler (upload_image), the metadata       *)
(* pipeline (add_custom_exif_metadata) and its helpers decimal_to_dms,     *)
(* randomize_camera_data and apply_random_transformations.                 *)
(*                                                                         *)
(* Python floats are IEEE-754 binary64.  decimal_to_dms truncates products *)
(* of floats, so the rounding of each product decides its result; the      *)
(* model therefore carries binary64 values exactly: a 53-bit significand   *)
(* held in two 30-bit limbs, and a binary exponent.                        *)
(***************************************************************************)
EXTENDS Integers, Sequences, FiniteSets, TLC

(***************************************************************************)
(* Unsigned integers below 2^60 as two limbs: value = hi * 2^30 + lo.      *)
(***************************************************************************)
Base == 2^30
MantBits == 53

Big(h, l) == [hi |-> h, lo |-> l]
BigZero == Big(0, 0)
BigIsZero(x) == x.hi = 0 /\ x.lo = 0
BigOdd(x) == x.lo % 2 = 1

Dbl(x) ==
  LET l == 2 * x.lo
  IN  Big(2 * x.hi + (l \div Base), l % Base)

Inc(x) ==
  IF x.lo + 1 = Base THEN Big(x.hi + 1, 0) ELSE Big(x.hi, x.lo + 1)

\* x - y, for x >= y
Sub(x, y) ==
  IF x.lo >= y.lo
    THEN Big(x.hi - y.hi, x.lo - y.lo)
    ELSE Big(x.hi - y.hi - 1, x.lo + Base - y.lo)

Shr1(x) == Big(x.hi \div 2, (x.lo \div 2) + (x.hi % 2) * (Base \div 2))

\* 60 x = 4 (16 x - x)
Times60(x) == Dbl(Dbl(Sub(Dbl(Dbl(Dbl(Dbl(x)))), x)))

RECURSIVE BitLen(_)
BitLen(n) == IF n = 0 THEN 0 ELSE 1 + BitLen(n \div 2)

BigBitLen(x) == IF x.hi > 0 THEN 30 + BitLen(x.hi) ELSE BitLen(x.lo)

\* x shifted right by n bits, with the last bit dropped (rnd) and whether any
\* earlier dropped bit was set (sticky)
RECURSIVE ShiftOut(_, _, _, _)
ShiftOut(x, n, rnd, sticky) ==
  IF n = 0
    THEN [v |-> x, rnd |-> rnd, sticky |-> sticky]
    ELSE ShiftOut(Shr1(x), n - 1, x.lo % 2, IF rnd = 1 THEN 1 ELSE sticky)

\* round to nearest, ties to even
RoundNearestEven(v, rnd, sticky) ==
  IF rnd = 1 /\ (sticky = 1 \/ BigOdd(v)) THEN Inc(v) ELSE v

\* floor(x / 2^n), for a quotient that fits one limb
BigFloorShift(x, n) ==
  IF n >= 60 THEN 0
  ELSE IF n >= 30 THEN x.hi \div 2^(n - 30)
  ELSE x.hi * 2^(30 - n) + (x.lo \div 2^n)

\* x mod 2^n
BigModPow2(x, n) ==
  IF n >= 60 THEN x
  ELSE IF n >= 30 THEN Big(x.hi % 2^(n - 30), x.lo)
  ELSE Big(0, x.lo % 2^n)

(***************************************************************************)
(* binary64 values: (-1)^neg * m * 2^(-scale), m < 2^54.  Only the values  *)
(* the program computes are needed: magnitudes below 256.                  *)
(***************************************************************************)
Float(neg, m, scale) == [neg |-> neg, m |-> m, scale |-> scale]

\* The significand of num/den to 53 significant bits by long division:
\* m holds the quotient bits so far, r the remainder, n the fraction bits.
RECURSIVE DivideBits(_, _, _, _)
DivideBits(m, r, den, n) ==
  IF BigBitLen(m) = MantBits
    THEN LET up == 2 * r > den \/ (2 * r = den /\ BigOdd(m))
         IN  [m |-> IF up THEN Inc(m) ELSE m, scale |-> n]
    ELSE LET bit == IF 2 * r >= den THEN 1 ELSE 0
             m2 == Dbl(m)
         IN  DivideBits(IF bit = 1 THEN Inc(m2) ELSE m2, 2 * r - bit * den, den, n + 1)

\* float("k/den" written as a decimal literal): the nearest binary64
ParseDecimal(k, den) ==
  LET a == IF k < 0 THEN -k ELSE k
      q == DivideBits(Big(0, a \div den), a % den, den, 0)
  IN  IF a = 0 THEN Float(FALSE, BigZero, 0) ELSE Float(k < 0, q.m, q.scale)

\* int(x): truncation toward zero
FloatToInt(x) ==
  LET a == BigFloorShift(x.m, x.scale)
  IN  IF x.neg THEN -a ELSE a

\* x - int(x): the subtraction is exact in binary64
FloatFrac(x) == Float(x.neg, BigModPow2(x.m, x.scale), x.scale)

\* x * 60, rounded to 53 significant bits
FloatTimes60(x) ==
  LET p == Times60(x.m)
      over == BigBitLen(p) - MantBits
  IN  IF over <= 0
        THEN Float(x.neg, p, x.scale)
        ELSE LET s == ShiftOut(p, over, 0, 0)
             IN  Float(x.neg, RoundNearestEven(s.v, s.rnd, s.sticky), x.scale - over)

\* decimal_to_dms(deg)
decimal_to_dms(deg) ==
  LET d == FloatToInt(deg)                  \* d = int(deg)
      x == FloatTimes60(FloatFrac(deg))     \* (deg - d) * 60
      m == FloatToInt(x)                    \* m = int((deg - d) * 60)
      y == FloatTimes60(FloatFrac(x))       \* ((deg - d) * 60 - m) * 60
      s == FloatToInt(y)                    \* s = int(...)
  IN  <<d, m, s>>


(***************************************************************************)
(* Strings.  A form field is absent (request.form.get gives None), a text  *)
(* (any str, "" included), a decimal literal k/den such as "40.712", or a  *)
(* string given character by character (date_taken).                       *)
(***************************************************************************)
Absent == [kind |-> "absent"]
Text(s) == [kind |-> "text", text |-> s]
Decimal(k, den) == [kind |-> "decimal", k |-> k, den |-> den]
Chars(cs) == [kind |-> "chars", chars |-> cs]

\* Python truthiness of a form field: None and "" are falsy
Truthy(v) ==
  /\ v.kind # "absent"
  /\ ~(v.kind = "text" /\ v.text = "")
  /\ ~(v.kind = "chars" /\ v.chars = <<>>)

\* float(v): [ok, error, value]
float(v) ==
  IF v.kind = "decimal"
    THEN [ok |-> TRUE, error |-> "", value |-> ParseDecimal(v.k, v.den)]
  ELSE IF v.kind = "absent"
    THEN [ok |-> FALSE, error |-> "TypeError", value |-> Float(FALSE, BigZero, 0)]
    ELSE [ok |-> FALSE, error |-> "ValueError", value |-> Float(FALSE, BigZero, 0)]

\* x >= 0 for a float
FloatNonNeg(x) == ~x.neg \/ BigIsZero(x.m)

Digits == <<"0", "1", "2", "3", "4", "5", "6", "7", "8", "9">>
IsDigit(c) == \E i \in 1..10 : Digits[i] = c
DigitVal(c) == (CHOOSE i \in 1..10 : Digits[i] = c) - 1

\* the number written by characters from..to of cs; -1 if one is no digit
RECURSIVE NumberAt(_, _, _)
NumberAt(cs, from, to) ==
  IF from > to THEN 0
  ELSE IF ~IsDigit(cs[to]) THEN -1
  ELSE LET rest == NumberAt(cs, from, to - 1)
       IN  IF rest < 0 THEN -1 ELSE 10 * rest + DigitVal(cs[to])

DaysInMonth(y, mo) ==
  IF mo \in {4, 6, 9, 11} THEN 30
  ELSE IF mo # 2 THEN 31
  ELSE IF (y % 4 = 0 /\ y % 100 # 0) \/ y % 400 = 0 THEN 29 ELSE 28

\* the ways cs matches %Y-%m-%dT%H:%M: %Y is four digits, the other
\* directives one or two; the datetime must exist
StrptimeMatches(cs) ==
  UNION { LET p1 == 5
              p2 == p1 + wm + 1
              p3 == p2 + wd + 1
              p4 == p3 + wH + 1
              n  == p4 + wM
          IN  IF /\ Len(cs) = n
                 /\ cs[p1] = "-" /\ cs[p2] = "-" /\ cs[p3] = "T" /\ cs[p4] = ":"
                 /\ NumberAt(cs, 1, 4) >= 1
                 /\ NumberAt(cs, p1 + 1, p2 - 1) \in 1..12
                 /\ NumberAt(cs, p2 + 1, p3 - 1) \in
                      1..DaysInMonth(NumberAt(cs, 1, 4), NumberAt(cs, p1 + 1, p2 - 1))
                 /\ NumberAt(cs, p3 + 1, p4 - 1) \in 0..23
                 /\ NumberAt(cs, p4 + 1, n) \in 0..59
              THEN {[y  |-> NumberAt(cs, 1, 4),
                     mo |-> NumberAt(cs, p1 + 1, p2 - 1),
                     d  |-> NumberAt(cs, p2 + 1, p3 - 1),
                     H  |-> NumberAt(cs, p3 + 1, p4 - 1),
                     M  |-> NumberAt(cs, p4 + 1, n),
                     S  |-> 0]}
              ELSE {}
        : wm \in 1..2, wd \in 1..2, wH \in 1..2, wM \in 1..2 }

\* datetime.strptime(v, "%Y-%m-%dT%H:%M"): [ok, value]
strptime(v) ==
  LET found == IF v.kind = "chars" THEN StrptimeMatches(v.chars) ELSE {}
  IN  IF found = {}
        THEN [ok |-> FALSE, value |-> [y |-> 0, mo |-> 0, d |-> 0, H |-> 0, M |-> 0, S |-> 0]]
        ELSE [ok |-> TRUE, value |-> CHOOSE dt \in found : TRUE]

TwoDigits(n) == <<Digits[(n \div 10) + 1], Digits[(n % 10) + 1]>>
FourDigits(n) == TwoDigits(n \div 100) \o TwoDigits(n % 100)

\* dt.strftime("%Y:%m:%d %H:%M:%S")
strftime(dt) ==
  Chars(FourDigits(dt.y) \o <<":">> \o TwoDigits(dt.mo) \o <<":">> \o TwoDigits(dt.d)
        \o <<" ">> \o TwoDigits(dt.H) \o <<":">> \o TwoDigits(dt.M)
        \o <<":">> \o TwoDigits(dt.S))

(***************************************************************************)
(* randomize_camera_data's tables                                          *)
(***************************************************************************)
makes == <<"Canon", "Nikon", "Sony", "Apple", "Samsung", "GoPro", "Huawei">>

models ==
  [mk \in {makes[i] : i \in 1..Len(makes)} |->
     CASE mk = "Canon"   -> <<"EOS 5D Mark IV", "Rebel T6", "EOS R">>
       [] mk = "Nikon"   -> <<"D850", "Z7", "D7500">>
       [] mk = "Sony"    -> <<"Alpha a7 III", "Alpha a6400">>
       [] mk = "Apple"   -> <<"iPhone 12 Pro", "iPhone X", "iPhone 13">>
       [] mk = "Samsung" -> <<"Galaxy S21", "Galaxy Note 10">>
       [] mk = "GoPro"   -> <<"HERO9 Black", "HERO8 Black">>
       [] mk = "Huawei"  -> <<"P40 Pro", "Mate 30 Pro">>]

Range(seq) == {seq[i] : i \in 1..Len(seq)}

(***************************************************************************)
(* random.uniform(a, b), a = lo/den and b = hi/den: the draws the model    *)
(* takes are the UniformSamples + 1 evenly spaced values from a to b.      *)
(***************************************************************************)
UniformSamples == 4

Uniform(lo, hi, den) ==
  { Decimal(lo * UniformSamples + (hi - lo) * i, den * UniformSamples) :
      i \in 0..UniformSamples }

\* the arguments of the random.uniform calls, as <<lo, hi, den>>
RotateRange     == <<-10, 10, 1>>
ContrastRange   == <<8, 12, 10>>
BrightnessRange == <<8, 12, 10>>
\* (a program whose saturation step copies the contrast step's range)
ColorRange_as_contrast == <<8, 12, 10>>
ColorRange      == <<9, 11, 10>>
SharpnessRange  == <<9, 11, 10>>
LatitudeRange   == <<-90, 90, 1>>
LongitudeRange  == <<-180, 180, 1>>

Draws(range) == Uniform(range[1], range[2], range[3])

(***************************************************************************)
(* The requests the model sends.                                           *)
(***************************************************************************)
Requests == {1, 2}

UPLOAD_FOLDER == "static/images"

\* a file name is a sequence of pieces, so that "modified_" + name is one too
PlainName == <<"a.jpg">>
filepath_of(filename) == <<UPLOAD_FOLDER>> \o filename
output_path_of(filename) == <<UPLOAD_FOLDER, "modified_">> \o filename

ValidDate   == Chars(<<"2", "0", "2", "4", "-", "0", "1", "-", "1", "5", "T", "0", "9", ":", "0", "0">>)
SlashDate   == Chars(<<"2", "0", "2", "3", "/", "0", "5", "/", "0", "1", " ", "1", "4", ":", "3", "0">>)
UnpaddedDate == Chars(<<"2", "0", "2", "4", "-", "1", "-", "5", "T", "9", ":", "0">>)

MakeInputs      == {Absent, Text("Nikon"), Text("Acme")}
ModelInputs     == {Absent, Text("D850")}
DateInputs      == {Absent, ValidDate, SlashDate, UnpaddedDate}
LatitudeInputs  == {Absent, Text(""), Text("not-a-number"), Decimal(200, 1),
                    Decimal(40712, 1000), Decimal(-74006, 1000)}
LongitudeInputs == {Absent, Decimal(2350, 1000), Decimal(-74006, 1000)}

Forms ==
  [camera_make : MakeInputs, camera_model : ModelInputs, date_taken : DateInputs,
   latitude : LatitudeInputs, longitude : LongitudeInputs]

Uploads ==
  [hasFile : BOOLEAN, filename : {<<>>, PlainName}, decodable : BOOLEAN]

\* two clients at once: the same or clashing file names, good and bad forms
ConcurrentForms ==
  [camera_make : {Text("Nikon")}, camera_model : {Text("D850")},
   date_taken : {ValidDate}, latitude : {Decimal(40712, 1000), Text("not-a-number")},
   longitude : {Decimal(2350, 1000)}]

ConcurrentUploads ==
  [hasFile : {TRUE}, filename : {PlainName, <<"modified_">> \o PlainName},
   decodable : {TRUE}]

\* datetime.now(): the wall clock readings the model takes
Clock ==
  { [y |-> 2026, mo |-> 11, d |-> 5, H |-> 15, M |-> 32, S |-> 7],
    [y |-> 2027, mo |-> 1, d |-> 1, H |-> 0, M |-> 0, S |-> 59] }

\* the coordinates decimal_to_dms is tried on: every multiple of 1/GridDen
\* degree from -180 to 180
GridDen == 100
Grid == { Decimal(k, GridDen) : k \in (-180 * GridDen)..(180 * GridDen) }

(***************************************************************************)
(* State                                                                   *)
(***************************************************************************)
VARIABLES
  request,       \* request[r]: the files and form of request r
  pc,            \* pc[r]: the statement request r is at
  fs,            \* the files under UPLOAD_FOLDER: path -> content
  img,           \* img[r]: the decoded image and the steps applied to it
  drawn,         \* drawn[r]: the value apply_random_transformations drew last
  camera_make,   \* the locals of add_custom_exif_metadata, per request
  camera_model,
  lat_dms,
  lon_dms,
  date_taken,
  exif_dict,
  exif_bytes,
  resp,          \* resp[r]: what the client of r received
  deg,           \* the argument decimal_to_dms is tried on
  dms            \* and its result

vars == <<request, pc, fs, img, drawn, camera_make, camera_model, lat_dms, lon_dms,
          date_taken, exif_dict, exif_bytes, resp, deg, dms>>

locals == <<img, drawn, camera_make, camera_model, lat_dms, lon_dms, date_taken,
            exif_dict, exif_bytes>>

\* a file: who wrote it (writer) by which call (kind), whose upload its pixels
\* come from (src), its metadata block, and whether Image.open can decode it
NoFile == [writer |-> 0, kind |-> "none", src |-> 0, exif |-> [tags |-> "none"],
           decodable |-> FALSE]
NoImage == [src |-> 0, ops |-> <<>>]
NoDraw == [op |-> "none", value |-> Decimal(0, 1)]
NoExif == [tags |-> "none"]
NoResponse == [status |-> 0, error |-> "", body |-> "", file |-> NoFile]
NoRequest ==
  [hasFile |-> FALSE, filename |-> <<>>, decodable |-> FALSE,
   camera_make |-> Absent, camera_model |-> Absent, date_taken |-> Absent,
   latitude |-> Absent, longitude |-> Absent]

Idle ==
  /\ request = [r \in Requests |-> NoRequest]
  /\ pc = [r \in Requests |-> "idle"]
  /\ fs = [p \in {} |-> NoFile]
  /\ img = [r \in Requests |-> NoImage]
  /\ drawn = [r \in Requests |-> NoDraw]
  /\ camera_make = [r \in Requests |-> Absent]
  /\ camera_model = [r \in Requests |-> Absent]
  /\ lat_dms = [r \in Requests |-> <<>>]
  /\ lon_dms = [r \in Requests |-> <<>>]
  /\ date_taken = [r \in Requests |-> Absent]
  /\ exif_dict = [r \in Requests |-> NoExif]
  /\ exif_bytes = [r \in Requests |-> NoExif]
  /\ resp = [r \in Requests |-> NoResponse]

Init == Idle /\ deg = Decimal(0, 1) /\ dms = <<>>

(***************************************************************************)
(* upload_image                                                            *)
(***************************************************************************)
Response(status, error, body, file) ==
  [status |-> status, error |-> error, body |-> body, file |-> file]

\* an exception no handler catches: Flask answers 500 and the request ends
Raise(r, error) ==
  /\ pc' = [pc EXCEPT ![r] = "done"]
  /\ resp' = [resp EXCEPT ![r] = Response(500, error, "", NoFile)]

Goto(r, label) == pc' = [pc EXCEPT ![r] = label] /\ UNCHANGED resp

filepath(r) == filepath_of(request[r].filename)
output_path(r) == output_path_of(request[r].filename)

WriteFile(files, path, content) ==
  [p \in DOMAIN files \cup {path} |-> IF p = path THEN content ELSE files[p]]

\* lines 115-126: the two early returns, then the form is read
Receive(r, uploads, forms) ==
  /\ pc[r] = "idle"
  /\ \E u \in uploads, f \in forms :
       IF ~u.hasFile
         THEN /\ request' = [request EXCEPT ![r] = [NoRequest EXCEPT !.decodable = u.decodable]]
              /\ pc' = [pc EXCEPT ![r] = "done"]
              /\ resp' = [resp EXCEPT ![r] = Response(400, "", "No image file uploaded", NoFile)]
       ELSE IF u.filename = <<>>
         THEN /\ request' = [request EXCEPT ![r] =
                   [NoRequest EXCEPT !.hasFile = TRUE, !.decodable = u.decodable]]
              /\ pc' = [pc EXCEPT ![r] = "done"]
              /\ resp' = [resp EXCEPT ![r] = Response(400, "", "No image selected", NoFile)]
         ELSE /\ request' = [request EXCEPT ![r] =
                   [hasFile |-> TRUE, filename |-> u.filename, decodable |-> u.decodable,
                    camera_make |-> f.camera_make, camera_model |-> f.camera_model,
                    date_taken |-> f.date_taken, latitude |-> f.latitude,
                    longitude |-> f.longitude]]
              /\ Goto(r, "file_save")
  /\ UNCHANGED <<fs, locals, deg, dms>>

\* lines 128-129: file.save(filepath)
FileSave(r) ==
  /\ pc[r] = "file_save"
  /\ fs' = WriteFile(fs, filepath(r),
                     [writer |-> r, kind |-> "upload", src |-> r, exif |-> NoExif,
                      decodable |-> request[r].decodable])
  /\ Goto(r, "open")
  /\ UNCHANGED <<request, locals, deg, dms>>

(***************************************************************************)
(* add_custom_exif_metadata(filepath, output_path, camera_make, ...)       *)
(***************************************************************************)
\* line 61: img = Image.open(image_path); the call binds the parameters
Open(r) ==
  /\ pc[r] = "open"
  /\ LET f == fs[filepath(r)]
     IN  IF f.decodable
           THEN /\ img' = [img EXCEPT ![r] = [src |-> f.src, ops |-> <<>>]]
                /\ camera_make' = [camera_make EXCEPT ![r] = request[r].camera_make]
                /\ camera_model' = [camera_model EXCEPT ![r] = request[r].camera_model]
                /\ date_taken' = [date_taken EXCEPT ![r] = request[r].date_taken]
                /\ Goto(r, "rotate")
           ELSE /\ Raise(r, "UnidentifiedImageError")
                /\ UNCHANGED <<img, camera_make, camera_model, date_taken>>
  /\ UNCHANGED <<request, fs, drawn, lat_dms, lon_dms, exif_dict, exif_bytes, deg, dms>>

\* one step of apply_random_transformations: a draw, and the image adjusted
Transform(r, at, op, range, next) ==
  /\ pc[r] = at
  /\ \E v \in Draws(range) :
       /\ drawn' = [drawn EXCEPT ![r] = [op |-> op, value |-> v]]
       /\ img' = [img EXCEPT ![r].ops = Append(@, op)]
  /\ Goto(r, next)
  /\ UNCHANGED <<request, fs, camera_make, camera_model, lat_dms, lon_dms, date_taken,
                 exif_dict, exif_bytes, deg, dms>>

Rotate(r)     == Transform(r, "rotate", "rotate", RotateRange, "contrast")
Contrast(r)   == Transform(r, "contrast", "contrast", ContrastRange, "brightness")
Brightness(r) == Transform(r, "brightness", "brightness", BrightnessRange, "color")
Color(r)      == Transform(r, "color", "color", ColorRange, "sharpness")
Sharpness(r)  == Transform(r, "sharpness", "sharpness", SharpnessRange, "camera")

\* randomize_camera_data(camera_make, camera_model): every result it can give
randomize_camera_data(make, model) ==
  LET chosen == IF ~Truthy(make) THEN {Text(mk) : mk \in Range(makes)} ELSE {make}
  IN  UNION { IF Truthy(model)
                THEN {[error |-> "", camera_make |-> mk, camera_model |-> model]}
              ELSE IF mk.text \notin DOMAIN models
                THEN {[error |-> "KeyError", camera_make |-> mk, camera_model |-> model]}
                ELSE {[error |-> "", camera_make |-> mk, camera_model |-> Text(md)] :
                        md \in Range(models[mk.text])}
            : mk \in chosen }

\* line 63
Camera(r) ==
  /\ pc[r] = "camera"
  /\ drawn' = [drawn EXCEPT ![r] = NoDraw]
  /\ \E res \in randomize_camera_data(camera_make[r], camera_model[r]) :
       IF res.error = ""
         THEN /\ camera_make' = [camera_make EXCEPT ![r] = res.camera_make]
              /\ camera_model' = [camera_model EXCEPT ![r] = res.camera_model]
              /\ Goto(r, "latitude")
         ELSE /\ Raise(r, res.error)
              /\ UNCHANGED <<camera_make, camera_model>>
  /\ UNCHANGED <<request, fs, img, lat_dms, lon_dms, date_taken, exif_dict, exif_bytes,
                 deg, dms>>

\* decimal_to_dms(float(field)) if field else decimal_to_dms(random.uniform(..)):
\* every result, as [error, dms]
ResolveCoordinate(field, range) ==
  IF Truthy(field)
    THEN LET p == float(field)
         IN  IF p.ok THEN {[error |-> "", dms |-> decimal_to_dms(p.value)]}
                     ELSE {[error |-> p.error, dms |-> <<>>]}
    ELSE {[error |-> "", dms |-> decimal_to_dms(ParseDecimal(x.k, x.den))] :
            x \in Draws(range)}

\* line 65
Latitude(r) ==
  /\ pc[r] = "latitude"
  /\ \E res \in ResolveCoordinate(request[r].latitude, LatitudeRange) :
       IF res.error = ""
         THEN lat_dms' = [lat_dms EXCEPT ![r] = res.dms] /\ Goto(r, "longitude")
         ELSE Raise(r, res.error) /\ UNCHANGED lat_dms
  /\ UNCHANGED <<request, fs, img, drawn, camera_make, camera_model, lon_dms, date_taken,
                 exif_dict, exif_bytes, deg, dms>>

\* line 66
Longitude(r) ==
  /\ pc[r] = "longitude"
  /\ \E res \in ResolveCoordinate(request[r].longitude, LongitudeRange) :
       IF res.error = ""
         THEN lon_dms' = [lon_dms EXCEPT ![r] = res.dms] /\ Goto(r, "date")
         ELSE Raise(r, res.error) /\ UNCHANGED lon_dms
  /\ UNCHANGED <<request, fs, img, drawn, camera_make, camera_model, lat_dms, date_taken,
                 exif_dict, exif_bytes, deg, dms>>

\* lines 68-71: every value date_taken can be rebound to, as [error, value]
ResolveDate(field) ==
  IF ~Truthy(field)
    THEN {[error |-> "", value |-> strftime(now)] : now \in Clock}
    ELSE LET p == strptime(field)
         IN  IF p.ok THEN {[error |-> "", value |-> strftime(p.value)]}
                     ELSE {[error |-> "ValueError", value |-> field]}

Date(r) ==
  /\ pc[r] = "date"
  /\ \E res \in ResolveDate(date_taken[r]) :
       IF res.error = ""
         THEN date_taken' = [date_taken EXCEPT ![r] = res.value] /\ Goto(r, "exif")
         ELSE Raise(r, res.error) /\ UNCHANGED date_taken
  /\ UNCHANGED <<request, fs, img, drawn, camera_make, camera_model, lat_dms, lon_dms,
                 exif_dict, exif_bytes, deg, dms>>

Rationals(triple) == <<<<triple[1], 1>>, <<triple[2], 1>>, <<triple[3], 1>>>>

\* lines 73-87: the dictionary, its GPS references from float(latitude) and
\* float(longitude) of the parameters as passed
BuildExif(make, model, date, latitude, longitude, latDms, lonDms) ==
  LET lat == float(latitude)
      lon == float(longitude)
  IN  IF ~lat.ok THEN [error |-> lat.error, dict |-> NoExif]
      ELSE IF ~lon.ok THEN [error |-> lon.error, dict |-> NoExif]
      ELSE [error |-> "",
            dict |-> [tags |-> "exif",
                      Make |-> make.text,
                      Model |-> model.text,
                      DateTimeOriginal |-> date.chars,
                      GPSLatitudeRef |-> IF FloatNonNeg(lat.value) THEN "N" ELSE "S",
                      GPSLatitude |-> Rationals(latDms),
                      GPSLongitudeRef |-> IF FloatNonNeg(lon.value) THEN "E" ELSE "W",
                      GPSLongitude |-> Rationals(lonDms)]]

Exif(r) ==
  /\ pc[r] = "exif"
  /\ LET res == BuildExif(camera_make[r], camera_model[r], date_taken[r],
                          request[r].latitude, request[r].longitude,
                          lat_dms[r], lon_dms[r])
     IN  IF res.error = ""
           THEN exif_dict' = [exif_dict EXCEPT ![r] = res.dict] /\ Goto(r, "dump")
           ELSE Raise(r, res.error) /\ UNCHANGED exif_dict
  /\ UNCHANGED <<request, fs, img, drawn, camera_make, camera_model, lat_dms, lon_dms,
                 date_taken, exif_bytes, deg, dms>>

\* line 89: piexif.dump packs GPSLatitude and GPSLongitude as EXIF RATIONALs,
\* pairs of unsigned 32-bit integers (struct.pack(">L", n)); a negative
\* numerator is out of range for it
Packable(rationals) ==
  \A i \in 1..Len(rationals) : rationals[i][1] >= 0 /\ rationals[i][2] >= 0

piexif_dump(dict) ==
  IF Packable(dict.GPSLatitude) /\ Packable(dict.GPSLongitude)
    THEN [error |-> "", bytes |-> dict]
    ELSE [error |-> "struct.error", bytes |-> NoExif]

Dump(r) ==
  /\ pc[r] = "dump"
  /\ LET res == piexif_dump(exif_dict[r])
     IN  IF res.error = ""
           THEN exif_bytes' = [exif_bytes EXCEPT ![r] = res.bytes] /\ Goto(r, "save")
           ELSE Raise(r, res.error) /\ UNCHANGED exif_bytes
  /\ UNCHANGED <<request, fs, img, drawn, camera_make, camera_model, lat_dms, lon_dms,
                 date_taken, exif_dict, deg, dms>>

\* line 90: img.save(output_path, "jpeg", exif=exif_bytes)
Save(r) ==
  /\ pc[r] = "save"
  /\ fs' = WriteFile(fs, output_path(r),
                     [writer |-> r, kind |-> "output", src |-> img[r].src,
                      exif |-> exif_bytes[r], decodable |-> TRUE])
  /\ Goto(r, "database")
  /\ UNCHANGED <<request, locals, deg, dms>>

\* lines 135-138: connect_to_database() gives a connection or None (it
\* catches its exceptions); either way nothing of the request changes
Database(r) ==
  /\ pc[r] = "database"
  /\ \E connected \in BOOLEAN : Goto(r, "send")
  /\ UNCHANGED <<request, fs, locals, deg, dms>>

\* line 140: send_file(output_path, ...)
Send(r) ==
  /\ pc[r] = "send"
  /\ pc' = [pc EXCEPT ![r] = "done"]
  /\ resp' = [resp EXCEPT ![r] = Response(200, "", "", fs[output_path(r)])]
  /\ UNCHANGED <<request, fs, locals, deg, dms>>

Handle(r) ==
  \/ FileSave(r)
  \/ Open(r)
  \/ Rotate(r)
  \/ Contrast(r)
  \/ Brightness(r)
  \/ Color(r)
  \/ Sharpness(r)
  \/ Camera(r)
  \/ Latitude(r)
  \/ Longitude(r)
  \/ Date(r)
  \/ Exif(r)
  \/ Dump(r)
  \/ Save(r)
  \/ Database(r)
  \/ Send(r)

\* one client
Next == Receive(1, Uploads, Forms) \/ Handle(1)

Spec == Init /\ [][Next]_vars

\* clients at once: Flask's development server handles each request on a
\* thread of its own
NextConcurrent == \E r \in Requests : Receive(r, ConcurrentUploads, ConcurrentForms) \/ Handle(r)

SpecConcurrent == Init /\ [][NextConcurrent]_vars

(***************************************************************************)
(* decimal_to_dms on its own, over the grid                                *)
(***************************************************************************)
InitDms == Idle /\ deg \in Grid /\ dms = <<>>

Convert ==
  /\ dms = <<>>
  /\ dms' = decimal_to_dms(float(deg).value)
  /\ UNCHANGED <<request, pc, fs, locals, resp, deg>>

SpecDms == InitDms /\ [][Convert]_vars

(***************************************************************************)
(* What the properties speak of                                            *)
(***************************************************************************)
Done(r) == pc[r] = "done"

\* the request got past the two early returns, with an image PIL can decode
Processed(r) == request[r].hasFile /\ request[r].filename # <<>> /\ request[r].decodable

Abs(n) == IF n < 0 THEN -n ELSE n

\* a decimal field within [-bound, bound] degrees
DecimalWithin(v, bound) == v.kind = "decimal" /\ Abs(v.k) <= bound * v.den

\* sixteen characters YYYY-MM-DDTHH:MM
IsoDatePattern(v) ==
  /\ v.kind = "chars"
  /\ Len(v.chars) = 16
  /\ \A i \in 1..16 :
       CASE i \in {5, 8} -> v.chars[i] = "-"
         [] i = 11       -> v.chars[i] = "T"
         [] i = 14       -> v.chars[i] = ":"
         [] OTHER        -> IsDigit(v.chars[i])

\* nineteen characters YYYY:MM:DD HH:MM:SS
ExifDatePattern(cs) ==
  /\ Len(cs) = 19
  /\ \A i \in 1..19 :
       CASE i \in {5, 8, 14, 17} -> cs[i] = ":"
         [] i = 11               -> cs[i] = " "
         [] OTHER                -> IsDigit(cs[i])

\* YYYY-MM-DDTHH:MM rewritten as YYYY:MM:DD HH:MM:00
Rewritten(cs) ==
  [i \in 1..16 |-> IF cs[i] = "-" THEN ":" ELSE IF cs[i] = "T" THEN " " ELSE cs[i]]
  \o <<":", "0", "0">>

Numerators(rationals) == <<rationals[1][1], rationals[2][1], rationals[3][1]>>

\* |k/den - (d + m/60 + s/3600)| in units of 1/(3600 den) degree
RoundTripError(k, den, t) == Abs(3600 * k - den * (3600 * t[1] + 60 * t[2] + t[3]))

\* a triple of a coordinate of magnitude at most bound degrees
DmsWithin(t, bound) ==
  /\ Abs(t[1]) <= bound
  /\ t[2] \in 0..59
  /\ t[3] \in 0..59
  /\ 3600 * Abs(t[1]) + 60 * t[2] + t[3] <= 3600 * bound

TransformOrder == <<"rotate", "contrast", "brightness", "color", "sharpness">>

IsPrefix(a, b) == Len(a) <= Len(b) /\ a = SubSeq(b, 1, Len(a))

\* lo/10 <= v <= hi/10
WithinTenths(v, lo, hi) == lo * v.den <= 10 * v.k /\ 10 * v.k <= hi * v.den

(***************************************************************************)
(* C1: a request with a decodable image in which some of the five optional *)
(* fields are absent, the others valid, completes, and its output carries  *)
(* a Make of the enumeration, a Model of that Make, a well-formed          *)
(* DateTimeOriginal and GPS values of a latitude in [-90, 90] and a        *)
(* longitude in [-180, 180].                                               *)
(***************************************************************************)
AbsentOrValid(r) ==
  LET q == request[r]
  IN  /\ q.camera_make = Absent \/ (q.camera_make.kind = "text" /\ q.camera_make.text \in Range(makes))
      /\ q.camera_model = Absent \/ Truthy(q.camera_model)
      /\ q.date_taken = Absent \/ IsoDatePattern(q.date_taken)
      /\ q.latitude = Absent \/ DecimalWithin(q.latitude, 90)
      /\ q.longitude = Absent \/ DecimalWithin(q.longitude, 180)

SomeAbsent(r) ==
  LET q == request[r]
  IN  Absent \in {q.camera_make, q.camera_model, q.date_taken, q.latitude, q.longitude}

DefaultedOutput(e) ==
  /\ e # NoExif
  /\ e.Make \in Range(makes)
  /\ e.Model \in Range(models[e.Make])
  /\ ExifDatePattern(e.DateTimeOriginal)
  /\ e.GPSLatitudeRef \in {"N", "S"}
  /\ e.GPSLongitudeRef \in {"E", "W"}
  /\ DmsWithin(Numerators(e.GPSLatitude), 90)
  /\ DmsWithin(Numerators(e.GPSLongitude), 180)

AbsentFieldsDefaulted ==
  \A r \in Requests :
    Done(r) /\ Processed(r) /\ AbsentOrValid(r) /\ SomeAbsent(r)
      => resp[r].status = 200 /\ DefaultedOutput(resp[r].file.exif)

(***************************************************************************)
(* C2: when camera_make is missing, randomize_camera_data returns a make   *)
(* of the enumeration and a model of that make's set, whether the model    *)
(* was missing too or supplied.                                            *)
(***************************************************************************)
CameraResolved(r) ==
  pc[r] \in {"latitude", "longitude", "date", "exif", "dump", "save", "database", "send"}

MissingMakeNeverCrossPaired ==
  \A r \in Requests :
    CameraResolved(r) /\ ~Truthy(request[r].camera_make)
      => /\ camera_make[r].text \in Range(makes)
         /\ camera_model[r].text \in Range(models[camera_make[r].text])

(***************************************************************************)
(* C3: for every coordinate in [-180, 180], negative ones included, the    *)
(* minutes and the seconds decimal_to_dms returns lie in 0..59.            *)
(***************************************************************************)
DmsMinutesSecondsInRange ==
  dms # <<>> => dms[2] \in 0..59 /\ dms[3] \in 0..59

(***************************************************************************)
(* C4: for every latitude in [-90, 90] of the grid, d + m/60 + s/3600 of   *)
(* the triple decimal_to_dms returns differs from the latitude by less     *)
(* than one arc-second.                                                    *)
(***************************************************************************)
DmsRoundTripUnderOneArcSecond ==
  dms # <<>> /\ DecimalWithin(deg, 90)
    => RoundTripError(deg.k, deg.den, dms) < deg.den

(***************************************************************************)
(* C5: a request whose date_taken is not of the form YYYY-MM-DDTHH:MM,     *)
(* whose latitude or longitude is not a number, or whose latitude is       *)
(* outside [-90, 90] or longitude outside [-180, 180], is rejected: it     *)
(* never completes with an output image.                                   *)
(***************************************************************************)
InvalidField(v, bound) == Truthy(v) /\ ~DecimalWithin(v, bound)

InvalidInput(r) ==
  LET q == request[r]
  IN  \/ Truthy(q.date_taken) /\ ~IsoDatePattern(q.date_taken)
      \/ InvalidField(q.latitude, 90)
      \/ InvalidField(q.longitude, 180)

InvalidInputRejected ==
  \A r \in Requests :
    Done(r) /\ Processed(r) /\ InvalidInput(r) => resp[r].status # 200

(***************************************************************************)
(* C6: concurrent uploads are independent: a request's pipeline reads the  *)
(* image that request uploaded, and its response is the output made from   *)
(* that image and that request's attribution.                              *)
(***************************************************************************)
ConcurrentUploadsIndependent ==
  \A r \in Requests :
    /\ img[r].src \in {0, r}
    /\ resp[r].status = 200
         => /\ resp[r].file.src = r
            /\ resp[r].file.writer = r
            /\ resp[r].file.exif = exif_bytes[r]

(***************************************************************************)
(* C7: a request ends either with the complete output image it wrote       *)
(* itself, or with an error and no output: a failed request has not        *)
(* written its output_path and was sent no file.                           *)
(***************************************************************************)
WroteOutput(r) ==
  /\ output_path(r) \in DOMAIN fs
  /\ fs[output_path(r)].writer = r
  /\ fs[output_path(r)].kind = "output"

OwnOutputOrNone ==
  \A r \in Requests :
    Done(r) =>
      IF resp[r].status = 200
        THEN /\ resp[r].file.kind = "output"
             /\ resp[r].file.writer = r
             /\ resp[r].file.exif = exif_bytes[r]
             /\ resp[r].file.exif # NoExif
        ELSE resp[r].file = NoFile /\ ~WroteOutput(r)

(***************************************************************************)
(* C8: with all five fields supplied and valid, the request completes and  *)
(* the output's attribution is the supplied one: Make and Model as given,  *)
(* DateTimeOriginal the date rewritten as YYYY:MM:DD HH:MM:00, N/S and E/W *)
(* by the signs, and triples within one arc-second of the coordinates.     *)
(***************************************************************************)
AllSuppliedValid(r) ==
  LET q == request[r]
  IN  /\ q.camera_make.kind = "text" /\ q.camera_make.text \in Range(makes)
      /\ Truthy(q.camera_model)
      /\ IsoDatePattern(q.date_taken)
      /\ DecimalWithin(q.latitude, 90)
      /\ DecimalWithin(q.longitude, 180)

\* the coordinate a reader of the tags decodes: the triple is a magnitude,
\* the reference letter its sign
Signed(ref, t) == IF ref \in {"S", "W"} THEN <<-t[1], -t[2], -t[3]>> ELSE t

SuppliedOutput(q, e) ==
  /\ e # NoExif
  /\ e.Make = q.camera_make.text
  /\ e.Model = q.camera_model.text
  /\ e.DateTimeOriginal = Rewritten(q.date_taken.chars)
  /\ e.GPSLatitudeRef = (IF q.latitude.k >= 0 THEN "N" ELSE "S")
  /\ e.GPSLongitudeRef = (IF q.longitude.k >= 0 THEN "E" ELSE "W")
  /\ RoundTripError(q.latitude.k, q.latitude.den,
                    Signed(e.GPSLatitudeRef, Numerators(e.GPSLatitude))) <= q.latitude.den
  /\ RoundTripError(q.longitude.k, q.longitude.den,
                    Signed(e.GPSLongitudeRef, Numerators(e.GPSLongitude))) <= q.longitude.den

SuppliedAttributionEmbedded ==
  \A r \in Requests :
    Done(r) /\ Processed(r) /\ AllSuppliedValid(r)
      => resp[r].status = 200 /\ SuppliedOutput(request[r], resp[r].file.exif)

(***************************************************************************)
(* C9: a request with a camera_make outside the enumeration is rejected    *)
(* or passes the make through; it never ends in a failed lookup in the     *)
(* make-to-models table.                                                   *)
(***************************************************************************)
UnknownMake(r) ==
  Truthy(request[r].camera_make) /\ request[r].camera_make.text \notin Range(makes)

UnknownMakeNeverLookupFailure ==
  \A r \in Requests :
    Done(r) /\ UnknownMake(r) => resp[r].error # "KeyError"

(***************************************************************************)
(* C10: apply_random_transformations performs rotate, contrast,            *)
(* brightness, color, sharpness in this order, the angle drawn in          *)
(* [-10, 10], the contrast and brightness factors in [0.8, 1.2], the       *)
(* saturation and sharpness factors in [0.9, 1.1]; and all five are done   *)
(* before add_custom_exif_metadata resolves any attribution value.         *)
(***************************************************************************)
DrawInClaimedRange(d) ==
  CASE d.op = "rotate"                     -> WithinTenths(d.value, -100, 100)
    [] d.op \in {"contrast", "brightness"} -> WithinTenths(d.value, 8, 12)
    [] d.op \in {"color", "sharpness"}     -> WithinTenths(d.value, 9, 11)
    [] OTHER                               -> d = NoDraw

AttributionTouched(r) ==
  \/ CameraResolved(r)
  \/ img[r].src # 0 /\ <<camera_make[r], camera_model[r], date_taken[r]>>
                        # <<request[r].camera_make, request[r].camera_model,
                             request[r].date_taken>>
  \/ lat_dms[r] # <<>>
  \/ lon_dms[r] # <<>>
  \/ exif_dict[r] # NoExif
  \/ exif_bytes[r] # NoExif
  \/ resp[r].status = 200

TransformOrderedBoundedFirst ==
  \A r \in Requests :
    /\ IsPrefix(img[r].ops, TransformOrder)
    /\ DrawInClaimedRange(drawn[r])
    /\ drawn[r] # NoDraw => img[r].ops # <<>> /\ drawn[r].op = img[r].ops[Len(img[r].ops)]
    /\ AttributionTouched(r) => img[r].ops = TransformOrder

\* a request answered with its image, all five steps applied
TransformedImageDelivered ==
  \E r \in Requests : resp[r].status = 200 /\ img[r].ops = TransformOrder

=============================================================================
